---- MODULE Spec2Model ----
(***************************************************************************)
(* Website-enrichment pipeline of the Maps bot.                            *)
(*                                                                         *)
(*   - the batch orchestrator enrichCompaniesWithWebsites                  *)
(*     (src/services/websiteEnrichmentService.ts), and                     *)
(*   - the enrichment endpoint POST /api/enrich with its URL scorer, its   *)
(*     search-result extractor and its lookup cache (src/proxy-server.ts,  *)
(*     lines 1-220).                                                       *)
(*                                                                         *)
(* Strings are TLA+ strings; TLC treats them as sequences of characters,   *)
(* so substring tests, lower-casing and percent-decoding are computed      *)
(* character by character, as the JavaScript does.                         *)
(***************************************************************************)
EXTENDS Integers, Sequences, FiniteSets, TLC

(***************************************************************************)
(* String helpers (JavaScript String.prototype methods).                   *)
(***************************************************************************)
CharAt(s, pos) == SubSeq(s, pos, pos)

StartsWith(s, p) == Len(s) >= Len(p) /\ SubSeq(s, 1, Len(p)) = p

EndsWith(s, p) == Len(s) >= Len(p) /\ SubSeq(s, Len(s) - Len(p) + 1, Len(s)) = p

\* s.includes(p)
Includes(s, p) == \E pos \in 0..(Len(s) - Len(p)) : SubSeq(s, pos + 1, pos + Len(p)) = p

\* s.indexOf(p) + 1, and 0 when p does not occur
IndexOf(s, p) ==
    LET hits == {pos \in 1..(Len(s) - Len(p) + 1) : SubSeq(s, pos, pos + Len(p) - 1) = p}
    IN  IF hits = {} THEN 0 ELSE CHOOSE pos \in hits : \A j \in hits : pos <= j

UpperCase == <<"A","B","C","D","E","F","G","H","I","J","K","L","M",
               "N","O","P","Q","R","S","T","U","V","W","X","Y","Z">>

LowerCase == <<"a","b","c","d","e","f","g","h","i","j","k","l","m",
               "n","o","p","q","r","s","t","u","v","w","x","y","z">>

Digits == {"0","1","2","3","4","5","6","7","8","9"}

LowerChar(c) ==
    IF \E pos \in 1..26 : UpperCase[pos] = c
    THEN LowerCase[CHOOSE pos \in 1..26 : UpperCase[pos] = c]
    ELSE c

RECURSIVE ToLowerCase(_)
ToLowerCase(s) ==
    IF s = "" THEN ""
    ELSE LowerChar(CharAt(s, 1)) \o ToLowerCase(SubSeq(s, 2, Len(s)))

IsLowerAlnum(c) == (\E pos \in 1..26 : LowerCase[pos] = c) \/ c \in Digits

\* s.replace(/[^a-z0-9]/g, '')
RECURSIVE StripNonAlnum(_)
StripNonAlnum(s) ==
    IF s = "" THEN ""
    ELSE (IF IsLowerAlnum(CharAt(s, 1)) THEN CharAt(s, 1) ELSE "")
         \o StripNonAlnum(SubSeq(s, 2, Len(s)))

(***************************************************************************)
(* URL scorer: src/proxy-server.ts, lines 46-92.                           *)
(***************************************************************************)
DIRECTORY_SITES ==
    { "duckduckgo.com", "facebook.com", "instagram.com", "twitter.com", "x.com",
      "yelp.com", "tripadvisor.com", "linkedin.com", "yellowpages", "jumia",
      "jiiji", "google.com", "bing.com", "businesslist.co.ke", "kenyaplex.com",
      "hotfrog.co.ke", "cylex.co.ke", "kenyanlist.com", "locanto.co.ke",
      "pigiame.co.ke", "jiji.co.ke", "olx.co.ke" }

\* name.toLowerCase().replace(/[^a-z0-9]/g, '').trim()
normalizeCompanyName(name) == StripNonAlnum(ToLowerCase(name))

\* urlLower.match(/\.(com|org|net|co\.ke|ke)$/)
MatchesBusinessTld(urlLower) ==
    \E t \in {".com", ".org", ".net", ".co.ke", ".ke"} : EndsWith(urlLower, t)

\* urlLower.match(/\.(wordpress|wix|squarespace|blogspot|weebly)\./)
MatchesPlatformSubdomain(urlLower) ==
    \E p \in {"wordpress", "wix", "squarespace", "blogspot", "weebly"} :
        Includes(urlLower, "." \o p \o ".")

\* The directory test of scoreUrl (line 67).
\* Lines 63-64: DIRECTORY_SITES.some(site => urlLower.includes(site))
IsDirectorySite(urlLower) == \E dir \in DIRECTORY_SITES : Includes(urlLower, dir)

\* A scorer for which a denylisted site costs 30 points and the other
\* signals still count.
ScoreLoweredMildPenalty(urlLower, normalizedCompany) ==
      (IF IsDirectorySite(urlLower) THEN -30 ELSE 0)
    + (IF Includes(urlLower, ".ke") \/ Includes(urlLower, ".co.ke") THEN 20 ELSE 0)
    + (IF normalizedCompany # "" /\ Includes(urlLower, normalizedCompany)
       THEN 30 ELSE 0)
    + (IF MatchesBusinessTld(urlLower) THEN 10 ELSE 0)
    - (IF MatchesPlatformSubdomain(urlLower) THEN 5 ELSE 0)

\* A scorer that gives the name bonus to an empty normalized name too.
ScoreLoweredEmptyNameCounts(urlLower, normalizedCompany) ==
    IF IsDirectorySite(urlLower) THEN -100
    ELSE (IF Includes(urlLower, ".ke") \/ Includes(urlLower, ".co.ke")
          THEN 20 ELSE 0)
       + (IF Includes(urlLower, normalizedCompany) THEN 30 ELSE 0)
       + (IF MatchesBusinessTld(urlLower) THEN 10 ELSE 0)
       - (IF MatchesPlatformSubdomain(urlLower) THEN 5 ELSE 0)

\* Lines 66-91, on the lower-cased URL and the normalized name.
ScoreLowered(urlLower, normalizedCompany) ==
    IF IsDirectorySite(urlLower) THEN -100
    ELSE (IF Includes(urlLower, ".ke") \/ Includes(urlLower, ".co.ke")
          THEN 20 ELSE 0)
       + (IF normalizedCompany # "" /\ Includes(urlLower, normalizedCompany)
          THEN 30 ELSE 0)
       + (IF MatchesBusinessTld(urlLower) THEN 10 ELSE 0)
       - (IF MatchesPlatformSubdomain(urlLower) THEN 5 ELSE 0)

\* A scorer that tests the URL as written, without lower-casing it first.
scoreUrlCaseSensitive(url, companyName) ==
    ScoreLowered(url, normalizeCompanyName(companyName))

\* Lines 61-92.
scoreUrl(url, companyName) ==
    ScoreLowered(ToLowerCase(url), normalizeCompanyName(companyName))

(***************************************************************************)
(* Percent-decoding.  decodeURIComponent throws a URIError on a "%" that   *)
(* is not followed by two hexadecimal digits; URLSearchParams decodes      *)
(* leniently (such a "%" stays, "+" becomes a space).  A result is         *)
(* [ok, val]; ok = FALSE stands for the thrown URIError.                   *)
(***************************************************************************)
HexDigits == Digits \cup {"a","b","c","d","e","f","A","B","C","D","E","F"}

\* The escapes that occur in the modelled pages (ASCII, one byte each).
PercentTable ==
    << <<"20", " ">>, <<"25", "%">>, <<"26", "&">>, <<"2d", "-">>,
       <<"2e", ".">>, <<"2f", "/">>, <<"3a", ":">>, <<"3d", "=">>,
       <<"3f", "?">> >>

PercentLookup(h) ==
    IF \E pos \in 1..Len(PercentTable) : PercentTable[pos][1] = h
    THEN PercentTable[CHOOSE pos \in 1..Len(PercentTable) : PercentTable[pos][1] = h][2]
    ELSE "?"

PercentByte(hex) == PercentLookup(ToLowerCase(hex))

IsEscape(s) ==
    Len(s) >= 3 /\ CharAt(s, 1) = "%" /\ CharAt(s, 2) \in HexDigits
                /\ CharAt(s, 3) \in HexDigits

\* A decoded first character in front of the decoding of the rest.
Decoded(first, rest) == [ok |-> rest.ok, val |-> IF rest.ok THEN first \o rest.val ELSE ""]

RECURSIVE decodeURIComponent(_)
decodeURIComponent(s) ==
    IF s = "" THEN [ok |-> TRUE, val |-> ""]
    ELSE IF CharAt(s, 1) = "%" /\ ~IsEscape(s) THEN [ok |-> FALSE, val |-> ""]
    ELSE Decoded(IF IsEscape(s) THEN PercentByte(SubSeq(s, 2, 3)) ELSE CharAt(s, 1),
                 decodeURIComponent(SubSeq(s, IF IsEscape(s) THEN 4 ELSE 2, Len(s))))

\* The decoding URLSearchParams applies to a name or a value.
RECURSIVE FormDecode(_)
FormDecode(s) ==
    IF s = "" THEN ""
    ELSE IF IsEscape(s)
    THEN PercentByte(SubSeq(s, 2, 3)) \o FormDecode(SubSeq(s, 4, Len(s)))
    ELSE (IF CharAt(s, 1) = "+" THEN " " ELSE CharAt(s, 1))
         \o FormDecode(SubSeq(s, 2, Len(s)))

\* s up to, and without, the first occurrence of any of the stops
UpTo(s, stops) ==
    LET hits == {pos \in 1..Len(s) : CharAt(s, pos) \in stops}
    IN  IF hits = {} THEN s
        ELSE SubSeq(s, 1, (CHOOSE pos \in hits : \A j \in hits : pos <= j) - 1)

AfterIndex(s, p, at) == IF at = 0 THEN "" ELSE SubSeq(s, at + Len(p), Len(s))

\* s after the first occurrence of p ("" when p does not occur)
After(s, p) == AfterIndex(s, p, IndexOf(s, p))

(***************************************************************************)
(* new URL(href, 'https://duckduckgo.com') and urlObj.searchParams.get.    *)
(***************************************************************************)
ForbiddenHostChars == {" ", "<", ">", "^", "|"}

\* The authority of an absolute or scheme-relative reference, "" otherwise.
AuthorityOf(href, l) ==
    IF StartsWith(l, "https://") THEN SubSeq(href, 9, Len(href))
    ELSE IF StartsWith(l, "http://") THEN SubSeq(href, 8, Len(href))
    ELSE IF StartsWith(l, "//") THEN SubSeq(href, 3, Len(href))
    ELSE ""

HostOf(href) == UpTo(AuthorityOf(href, ToLowerCase(href)), {"/", "?", "#"})

\* new URL(href, base) throws a TypeError on an invalid host.
HasForbiddenChar(host) ==
    \E pos \in 1..Len(host) : CharAt(host, pos) \in ForbiddenHostChars

UrlParseThrows(href) == HasForbiddenChar(HostOf(href))

\* The first value of parameter name in the query string q: [found, val].
RECURSIVE SearchParam(_, _)

\* name=value pieces are separated by "&"; piece is the first of them.
PieceName(piece) == FormDecode(UpTo(piece, {"="}))

PieceValue(piece, rawName) == FormDecode(SubSeq(piece, Len(rawName) + 2, Len(piece)))

SearchParamIn(q, name, piece) ==
    IF piece # "" /\ PieceName(piece) = name
    THEN [found |-> TRUE, val |-> PieceValue(piece, UpTo(piece, {"="}))]
    ELSE SearchParam(SubSeq(q, Len(piece) + 2, Len(q)), name)

SearchParam(q, name) ==
    IF q = "" THEN [found |-> FALSE, val |-> ""]
    ELSE SearchParamIn(q, name, UpTo(q, {"&"}))

\* urlObj.searchParams.get(name)
SearchParamsGet(href, name) == SearchParam(After(UpTo(href, {"#"}), "?"), name)

\* href.match(/uddg=([^&]+)/): [found, val] with val the captured group.
UddgMatchAmong(href, hits) ==
    IF hits = {} THEN [found |-> FALSE, val |-> ""]
    ELSE [found |-> TRUE,
          val |-> UpTo(SubSeq(href, (CHOOSE k \in hits : \A j \in hits : k <= j) + 5,
                              Len(href)), {"&"})]

UddgRegexMatch(href) ==
    UddgMatchAmong(href, {pos \in 1..(Len(href) - 5) :
                            /\ SubSeq(href, pos, pos + 4) = "uddg="
                            /\ CharAt(href, pos + 5) # "&"})

(***************************************************************************)
(* Search-result extractor: the links.each callback of the handler,        *)
(* src/proxy-server.ts lines 144-182.                                      *)
(***************************************************************************)
\* Lines 159-162, the catch block: the regex fallback.
RedirectFallback(href, match) ==
    IF ~match.found THEN [ok |-> TRUE, url |-> href]
    ELSE LET decoded == decodeURIComponent(match.val)
         IN  [ok |-> decoded.ok, url |-> decoded.val]

\* Lines 153-157, the try block, given what searchParams.get returned and
\* what decodeURIComponent makes of it: [threw, url].
RedirectTry(href, parseThrows, uddg, decoded) ==
    IF parseThrows THEN [threw |-> TRUE, url |-> href]
    ELSE IF ~(uddg.found /\ uddg.val # "") THEN [threw |-> FALSE, url |-> href]
    ELSE [threw |-> ~decoded.ok, url |-> decoded.val]

RedirectResolve(href, tried) ==
    IF tried.threw THEN RedirectFallback(href, UddgRegexMatch(href))
    ELSE [ok |-> TRUE, url |-> tried.url]

\* Lines 148-164.  [ok, url]; ok = FALSE is an exception that leaves the
\* callback: the decodeURIComponent of the catch block (line 161) threw.
ResolveRedirect(href) ==
    IF ~Includes(href, "uddg=") THEN [ok |-> TRUE, url |-> href]
    ELSE RedirectResolve(href,
            RedirectTry(href, UrlParseThrows(href), SearchParamsGet(href, "uddg"),
                        decodeURIComponent(SearchParamsGet(href, "uddg").val)))

\* Lines 166-173: prepend the scheme to a host-only reference.
WithScheme(candidateUrl) ==
    IF ~StartsWith(candidateUrl, "http") /\ ~StartsWith(candidateUrl, "/")
    THEN "https://" \o candidateUrl
    ELSE candidateUrl

\* One call of the links.each callback, lines 145-175, given the resolved
\* reference and what the rest of the page yields.
ExtractStep(href, r, candidateUrl, rest) ==
    IF href = "" THEN rest                                      \* line 146
    ELSE IF ~r.ok THEN [ok |-> FALSE, urls |-> <<>>]
    ELSE IF StartsWith(candidateUrl, "/") THEN rest             \* line 175
    ELSE [ok |-> rest.ok,
          urls |-> IF rest.ok THEN <<candidateUrl>> \o rest.urls ELSE <<>>]

\* The absolute URLs a page yields, in document order: [ok, urls].
\* ok = FALSE: an exception left links.each (the query's catch takes it).
RECURSIVE ExtractUrls(_)
ExtractUrls(page) ==
    IF page = <<>> THEN [ok |-> TRUE, urls |-> <<>>]
    ELSE ExtractStep(Head(page), ResolveRedirect(Head(page)),
                     WithScheme(ResolveRedirect(Head(page)).url),
                     ExtractUrls(Tail(page)))

\* Line 177: every extracted URL with its score.
ScoreAll(urls, company_name) ==
    [j \in 1..Len(urls) |-> [url |-> urls[j], score |-> scoreUrl(urls[j], company_name)]]

\* Line 178: if (score > -50) candidates.push(...)
Qualifies(score) == score > -50

RECURSIVE Candidates(_)
Candidates(scored) ==
    IF scored = <<>> THEN <<>>
    ELSE (IF Qualifies(Head(scored).score) THEN <<Head(scored)>> ELSE <<>>)
         \o Candidates(Tail(scored))

\* Line 185: candidates.sort((a, b) => b.score - a.score), a stable sort.
RECURSIVE InsertByScore(_, _)
InsertByScore(c, sorted) ==
    IF sorted = <<>> THEN <<c>>
    ELSE IF Head(sorted).score >= c.score
    THEN <<Head(sorted)>> \o InsertByScore(c, Tail(sorted))
    ELSE <<c>> \o sorted

RECURSIVE SortByScore(_)
SortByScore(cands) ==
    IF cands = <<>> THEN <<>>
    ELSE InsertByScore(cands[Len(cands)], SortByScore(SubSeq(cands, 1, Len(cands) - 1)))

\* A ScoredUrl | null (line 121).
NoCandidate == [some |-> FALSE, url |-> "", score |-> 0]

Candidate(c) == [some |-> TRUE, url |-> c.url, score |-> c.score]

\* Line 186: bestCandidate?.score || 0
ScoreOrZero(best) == IF best.some /\ best.score # 0 THEN best.score ELSE 0

\* An update that also replaces the running best on an equal score.
KeepBetterOrEqual(best, sorted) ==
    IF Len(sorted) > 0 /\ sorted[1].score >= ScoreOrZero(best)
    THEN Candidate(sorted[1])
    ELSE best

\* Lines 185-188: the running best after one page's candidates.
KeepBetter(best, sorted) ==
    IF Len(sorted) > 0 /\ sorted[1].score > ScoreOrZero(best)
    THEN Candidate(sorted[1])
    ELSE best

UpdateBest(best, cands) == KeepBetter(best, SortByScore(cands))

\* The candidates of a page that score the most, and the first of them in
\* document order.
TopScore(cands) ==
    CHOOSE score \in {cands[j].score : j \in 1..Len(cands)} :
       \A j \in 1..Len(cands) : cands[j].score <= score

TopsAt(cands, score) == {cands[j].url : j \in {k \in 1..Len(cands) : cands[k].score = score}}

FirstAt(cands, score) ==
    cands[CHOOSE j \in 1..Len(cands) :
             /\ cands[j].score = score
             /\ \A k \in 1..(j - 1) : cands[k].score # score]

NoTop == [some |-> FALSE, url |-> "", score |-> 0, urls |-> {}]

TopWith(cands, score) ==
    [some |-> TRUE, url |-> FirstAt(cands, score).url, score |-> score,
     urls |-> TopsAt(cands, score)]

PageTop(cands) == IF cands = <<>> THEN NoTop ELSE TopWith(cands, TopScore(cands))

\* The top candidates of the pages processed so far: the first URL to reach
\* the highest score, that score, and every URL that scored it.
SeenTop(top, pageTop) ==
    IF ~pageTop.some THEN top
    ELSE IF ~top.some \/ pageTop.score > top.score THEN pageTop
    ELSE IF pageTop.score = top.score
    THEN [top EXCEPT !.urls = @ \cup pageTop.urls]
    ELSE top

\* A loop that breaks only on a score of 70 or more.
StopSearchingAt70(best) == best.some /\ best.score >= 70

\* Line 191: if (bestCandidate && bestCandidate.score >= 40) break
StopSearching(best) == best.some /\ best.score >= 40

Min(a, b) == IF a < b THEN a ELSE b

Max(a, b) == IF a > b THEN a ELSE b

\* null and undefined, as JSON values of the string-typed fields
NullUrl == "<null>"

NoUrl == "<undefined>"

\* undefined, for the number-typed websiteConfidence / confidence
NoConfidence == -1

\* Lines 202-207: the result of a lookup.
LookupResult(best) ==
    [websiteUrl |-> IF best.some THEN best.url ELSE NullUrl,
     confidence |-> IF best.some THEN Min(100, Max(0, best.score)) ELSE 0]

(***************************************************************************)
(* Lookup cache: new NodeCache({ stdTTL: 3600 }), src/proxy-server.ts      *)
(* line 11.  An entry is [value, t] with t its expiry time; the clock and  *)
(* the expiry times are in seconds.                                        *)
(***************************************************************************)
stdTTL == 3600

\* Line 102: `${company_name}-${location}`
CacheKey(company_name, location) == company_name \o "-" \o location

\* An entry is expired once its expiry time lies before the clock.
Expired(entry, clock) == entry.t < clock

\* A cache whose get never finds the entry.
CacheGetMisses(c, key, clock) ==
    [hit |-> FALSE, value |-> LookupResult(NoCandidate)]

\* cache.get(key) (line 103): [hit, value]
CacheGet(c, key, clock) ==
    IF key \in DOMAIN c /\ ~Expired(c[key], clock)
    THEN [hit |-> TRUE, value |-> c[key].value]
    ELSE [hit |-> FALSE, value |-> LookupResult(NoCandidate)]

\* get() deletes the entry it finds expired.
CacheAfterGet(c, key, clock) ==
    IF key \in DOMAIN c /\ Expired(c[key], clock)
    THEN [k \in DOMAIN c \ {key} |-> c[k]]
    ELSE c

\* A write that keeps only the results that hold a URL.
CacheSetSkipsNotFound(c, key, value, clock) ==
    IF value.websiteUrl = NullUrl THEN c
    ELSE [k \in DOMAIN c \cup {key} |->
             IF k = key THEN [value |-> value, t |-> clock + stdTTL] ELSE c[k]]

\* A write whose entry lives for two hours.
CacheSetTwoHours(c, key, value, clock) ==
    [k \in DOMAIN c \cup {key} |->
        IF k = key THEN [value |-> value, t |-> clock + 2 * stdTTL] ELSE c[k]]

\* cache.set(cacheKey, result, 3600) (line 208)
CacheSet(c, key, value, clock) ==
    [k \in DOMAIN c \cup {key} |->
        IF k = key THEN [value |-> value, t |-> clock + stdTTL] ELSE c[k]]

\* A hit answered with the URL alone, without the cached confidence.
CacheHitBodyUrlOnly(value) ==
    [status |-> 200, websiteUrl |-> value.websiteUrl, confidence |-> NoConfidence]

\* Line 106: res.json(cachedResult)
CacheHitBody(value) ==
    [status |-> 200, websiteUrl |-> value.websiteUrl, confidence |-> value.confidence]

\* Line 210: res.json(result)
ResultBody(result) ==
    [status |-> 200, websiteUrl |-> result.websiteUrl, confidence |-> result.confidence]

\* Lines 98 and 214: res.status(code).json({ error: ... })
ErrorBody(code) == [status |-> code, websiteUrl |-> NoUrl, confidence |-> NoConfidence]

(***************************************************************************)
(* The orchestrator's view of a business:                                  *)
(* src/services/websiteEnrichmentService.ts and src/types.ts.              *)
(***************************************************************************)
BATCH_SIZE == 3

\* websiteStatus of a record that was never enriched
NoStatus == "<undefined>"

\* A Company as the search collaborator supplies it (types.ts lines 1-13);
\* the enrichment fields of EnrichedCompany (lines 58-66) are undefined.
Company(name, website, locality, county) ==
    [name |-> name, website |-> website, locality |-> locality, county |-> county,
     websiteStatus |-> NoStatus, websiteUrl |-> NoUrl,
     websiteConfidence |-> NoConfidence]

\* JavaScript truthiness of a string-typed JSON value
Truthy(str) == str \notin {"", NullUrl, NoUrl}

\* A test that takes the placeholder for a website.
HasWebsiteIfPlaceholder(company) == Truthy(company.website) /\ company.website = "N/A"

\* Line 24: company.website && company.website !== 'N/A'
HasWebsite(company) == Truthy(company.website) /\ company.website # "N/A"

\* Line 39: company.locality || company.county || 'Kenya'
LocationOf(company) ==
    IF Truthy(company.locality) THEN company.locality
    ELSE IF Truthy(company.county) THEN company.county
    ELSE "Kenya"

\* The slot of the batch taken for the index in the whole list.
companyIndexInBatch(batchStart, index) == index

\* Line 21: const companyIndex = i + index
companyIndex(batchStart, index) == batchStart + index

\* Lines 25-29: the record of a business that already has a website.
EnrichedKnown(company) ==
    [company EXCEPT !.websiteStatus = "found", !.websiteUrl = company.website]

\* data.confidence || 0
ConfidenceOrZero(data) ==
    IF data.confidence = NoConfidence THEN 0 ELSE data.confidence

\* A record that leaves the business's own website field as it came.
EnrichedFromDataKeepsWebsite(company, data) ==
    IF Truthy(data.websiteUrl)
    THEN [company EXCEPT !.websiteStatus = "found",
                         !.websiteUrl = data.websiteUrl,
                         !.websiteConfidence = ConfidenceOrZero(data)]
    ELSE [company EXCEPT !.websiteStatus = "not_found",
                         !.websiteConfidence = ConfidenceOrZero(data)]

\* Lines 46-62: the record built from the endpoint's JSON answer.
EnrichedFromData(company, data) ==
    IF Truthy(data.websiteUrl)
    THEN [company EXCEPT !.websiteStatus = "found",
                         !.websiteUrl = data.websiteUrl,
                         !.website = data.websiteUrl,
                         !.websiteConfidence = ConfidenceOrZero(data)]
    ELSE [company EXCEPT !.websiteStatus = "not_found",
                         !.websiteConfidence = ConfidenceOrZero(data)]

\* A catch block that writes no record.
EnrichedErrorUnwritten(company) == company

\* Lines 65-68: the record of a business whose request threw.
EnrichedError(company) == [company EXCEPT !.websiteStatus = "error"]

\* A tally in which the catch block forgets errors++.
TallyWithoutErrors(status) ==
    [found |-> IF status = "found" THEN 1 ELSE 0,
     notFound |-> IF status = "not_found" THEN 1 ELSE 0,
     errors |-> 0]

\* Lines 30, 54, 61 and 69: found++, notFound++, errors++
Tally(status) ==
    [found |-> IF status = "found" THEN 1 ELSE 0,
     notFound |-> IF status = "not_found" THEN 1 ELSE 0,
     errors |-> IF status = "error" THEN 1 ELSE 0]

(***************************************************************************)
(* Bounds and inputs of the model.                                         *)
(***************************************************************************)
\* Longest input list: one more than a batch, so that a second batch runs.
MaxCompanies == 4

\* The clock advances in steps of TickSeconds, at most MaxTicks times.
TickSeconds == 1800

MaxTicks == 3

\* At most this many businesses of one batch need a search.
MaxSearchesPerBatch == 2

CompanyPool ==
    { Company("Java House", "N/A", "Nairobi", "Nairobi"),
      Company("Java House", "https://example.co.ke", "Nairobi", "Nairobi"),
      Company("", "", "", "Kiambu") }

\* Two businesses whose names and locations differ and whose cache keys
\* (line 102) are the same string, and one whose website is known.
KnownBusiness == Company("Java House", "https://example.co.ke", "Nairobi", "Nairobi")

CollidingPool ==
    { Company("Java House-Westlands", "N/A", "Nairobi", "Nairobi"),
      Company("Java House", "N/A", "Westlands-Nairobi", "Nairobi") }

\* A business for which the endpoint searches.
NeedsSearch(company) == ~HasWebsite(company) /\ company.name # ""

\* The businesses of the batch that starts after batchStart.
BatchOf(list, batchStart) ==
    {k \in 1..Len(list) : k > batchStart /\ k <= batchStart + BATCH_SIZE}

\* A business whose name has no letter and no digit.
SymbolBusiness == Company("&", "N/A", "Nairobi", "Nairobi")

CallerPool == CollidingPool \cup {SymbolBusiness}

\* Two batches, one search in each.
CallerLists == {<<a, KnownBusiness, KnownBusiness, b>> : a, b \in CallerPool}

InputLists ==
    {list \in UNION {[1..n -> CompanyPool] : n \in 0..MaxCompanies} :
        \A b \in 0..MaxCompanies :
           Cardinality({k \in BatchOf(list, b * BATCH_SIZE) : NeedsSearch(list[k])})
              <= MaxSearchesPerBatch}

\* Result pages of the search engine: the href attributes of the links that
\* the selector of line 140 matches, in document order.
PageOfficial ==
    << "//duckduckgo.com/l/?uddg=https%3A%2F%2FJavaHouse.co.ke&rut=a1",
       "https://www.facebook.com/JavaHouse" >>

PageDirectories ==
    << "https://www.Facebook.com/javahouse.co.ke",
       "//duckduckgo.com/l/?uddg=https%3A%2F%2Fwww.yelp.com%2Fbiz%2Fjava-house",
       "https://dropbox.com/javahouse",
       "/settings" >>

PageWeak ==
    << "example.com", "", "https://javahouse.wordpress.com/about" >>

PageNeutral == << "https://some.site/page" >>

\* A page whose best link scores what the best link of PageWeak scores.
PageTie == << "https://javahouse.blogspot.com/" >>

\* A page whose first link is a redirect wrapper with a destination that
\* cannot be decoded (a truncated UTF-8 sequence).
PageMalformed ==
    << "//duckduckgo.com/l/?uddg=%E0%A4%A&rut=c3", "https://JavaHouse.co.ke/menu" >>

SearchPages ==
    {PageOfficial, PageDirectories, PageWeak, PageNeutral, PageTie, PageMalformed}

\* What axios.get (lines 128-136) can do: throw, or return a page.
SearchOutcomes ==
    {[ok |-> FALSE, page |-> <<>>]} \cup {[ok |-> TRUE, page |-> pg] : pg \in SearchPages}

\* The same queries, the loosest first.
QueriesLoosestFirst(company_name, location) ==
    << company_name \o " official website " \o location,
       "\"" \o company_name \o "\" " \o location
            \o " -site:facebook.com -site:yelp.com -site:tripadvisor.com",
       "\"" \o company_name \o "\" " \o location \o " site:.ke" >>

\* Lines 115-119: the queries of a lookup, in the order they are tried.
Queries(company_name, location) ==
    << "\"" \o company_name \o "\" " \o location \o " site:.ke",
       "\"" \o company_name \o "\" " \o location
            \o " -site:facebook.com -site:yelp.com -site:tripadvisor.com",
       company_name \o " official website " \o location >>

(***************************************************************************)
(* State.                                                                  *)
(***************************************************************************)
VARIABLES
    companies,          \* the argument of enrichCompaniesWithWebsites
    enrichedCompanies,  \* line 14
    i,                  \* the loop variable of line 17
    pc,                 \* where the orchestrator is: loop, mapping, awaiting, delay, returned
    cursor,             \* index of the batch member that batch.map calls next
    task,               \* per batch member: idle, fetching, done
    completed, found, notFound, errors,     \* lines 9-12
    progress,           \* the snapshot last passed to onProgress
    progressCalls,      \* number of onProgress calls
    handler,            \* per batch member: the endpoint's handling of its request
    cache,              \* the NodeCache of the endpoint
    now,                \* the clock, in seconds
    ticks,              \* number of clock steps taken
    writes,             \* history: the cache.set calls made, as [key, value, time]
    lastWrite,          \* history: per key, the latest of them, as [value, time,
                        \*          company_name, location, failed]
    delay,              \* the parameter delay of line 6
    waits,              \* history: the lengths (ms) of the inter-batch timers set
    cancelRequested,    \* history: Cancel was clicked while the run was in progress
    appCompanies,       \* the application's state `companies` (App.tsx)
    appPc               \* where the application is: "enriching", "idle",
                        \* "retrying" or "merged"

vars == <<companies, enrichedCompanies, i, pc, cursor, task, completed, found,
          notFound, errors, progress, progressCalls, handler, cache, now, ticks,
          writes, lastWrite, delay, waits, cancelRequested, appCompanies, appPc>>

Slots == 0..(BATCH_SIZE - 1)

\* companies.slice(i, i + BATCH_SIZE).length (line 18)
BatchLength == Min(BATCH_SIZE, Len(companies) - i)

\* batch[index] of line 20, with batch = companies.slice(i, i + BATCH_SIZE).
Member(index) == companies[i + index + 1]

NoBody == [status |-> 0, websiteUrl |-> NoUrl, confidence |-> NoConfidence]

\* state: none, inflight (request sent), searching (a search fetch is
\* pending), responded.  fetches counts the search fetches issued.  The
\* other fields are history: onlyFailures (every fetch so far threw),
\* onlyDirectories (every fetch so far returned a page of denylisted URLs),
\* qualified (some candidate passed line 178), top (the candidates that
\* scored the most so far, the first of them first), dropped (a page was
\* fetched and the query's catch block discarded it), hit (the cache answered),
\* and the values written for the key within the TTL before the request
\* arrived (prior: all of them, latest: the last one).
NoHandler ==
    [state |-> "none", company_name |-> "", location |-> "", fetches |-> 0,
     best |-> NoCandidate, onlyFailures |-> TRUE, onlyDirectories |-> TRUE,
     qualified |-> FALSE, top |-> NoTop, dropped |-> FALSE, hit |-> FALSE,
     prior |-> {}, latest |-> {}, writer |-> {}, body |-> NoBody]

\* Line 6: delay: number = 1000
DefaultDelay == 1000

\* Line 85: setTimeout(resolve, 1000); the parameter delay is not read.
InterBatchWait(delayMs) == 1000

\* Lines 8-15 and the start of the endpoint's process.
Started ==
    /\ enrichedCompanies = companies
    /\ i = 0
    /\ pc = "loop"
    /\ cursor = 0
    /\ task = [k \in Slots |-> "idle"]
    /\ completed = 0 /\ found = 0 /\ notFound = 0 /\ errors = 0
    /\ progress = [total |-> Len(companies), completed |-> 0, found |-> 0,
                   notFound |-> 0, errors |-> 0, currentBusiness |-> ""]
    /\ progressCalls = 0
    /\ handler = [k \in Slots |-> NoHandler]
    /\ cache = <<>>
    /\ now = 0
    /\ ticks = 0
    /\ writes = {}
    /\ lastWrite = <<>>
    /\ waits = <<>>
    /\ cancelRequested = FALSE
    /\ appCompanies = companies
    /\ appPc = "enriching"

\* A call without the third argument, as the default of line 6 allows.
Init ==
    /\ companies \in InputLists
    /\ delay = DefaultDelay
    /\ Started

(***************************************************************************)
(* The orchestrator: enrichCompaniesWithWebsites.                          *)
(***************************************************************************)
\* A callback that reports progress only for the businesses it looked up.
FinishSilentIfKnown(index, record) ==
    /\ enrichedCompanies' =
          [enrichedCompanies EXCEPT ![companyIndex(i, index) + 1] = record]
    /\ found' = found + Tally(record.websiteStatus).found
    /\ notFound' = notFound + Tally(record.websiteStatus).notFound
    /\ errors' = errors + Tally(record.websiteStatus).errors
    /\ completed' = completed + 1
    /\ IF HasWebsite(Member(index))
       THEN UNCHANGED <<progress, progressCalls>>
       ELSE /\ progress' = [total |-> Len(companies), completed |-> completed',
                            found |-> found', notFound |-> notFound',
                            errors |-> errors',
                            currentBusiness |-> Member(index).name]
            /\ progressCalls' = progressCalls + 1
    /\ task' = [task EXCEPT ![index] = "done"]

\* Lines 73-81, with the assignment to enrichedCompanies that precedes them:
\* the end of a batch member's callback.
Finish(index, record) ==
    /\ enrichedCompanies' =
          [enrichedCompanies EXCEPT ![companyIndex(i, index) + 1] = record]
    /\ found' = found + Tally(record.websiteStatus).found
    /\ notFound' = notFound + Tally(record.websiteStatus).notFound
    /\ errors' = errors + Tally(record.websiteStatus).errors
    /\ completed' = completed + 1
    /\ progress' = [total |-> Len(companies), completed |-> completed',
                    found |-> found', notFound |-> notFound', errors |-> errors',
                    currentBusiness |-> Member(index).name]
    /\ progressCalls' = progressCalls + 1
    /\ task' = [task EXCEPT ![index] = "done"]

\* Line 17: the loop test; a new batch starts or the function returns.
LoopTest ==
    /\ pc = "loop"
    /\ IF i < Len(companies)
       THEN /\ pc' = "mapping"
            /\ cursor' = 0
            /\ task' = [k \in Slots |-> "idle"]
            /\ handler' = [k \in Slots |-> NoHandler]
       ELSE /\ pc' = "returned"
            /\ UNCHANGED <<cursor, task, handler>>
    /\ UNCHANGED <<companies, enrichedCompanies, i, completed, found, notFound,
                   errors, progress, progressCalls, cache, now, ticks, writes, lastWrite>>
    /\ UNCHANGED <<delay, waits, cancelRequested, appCompanies, appPc>>

\* Lines 20-42: batch.map calls the callback of each member in turn; each
\* call runs to its first await (the fetch) or, for a business that has a
\* website, to its end.
StartTask(index) ==
    /\ pc = "mapping"
    /\ cursor = index
    /\ index < BatchLength
    /\ cursor' = index + 1
    /\ pc' = IF index + 1 = BatchLength THEN "awaiting" ELSE "mapping"
    /\ IF HasWebsite(Member(index))
       THEN /\ Finish(index, EnrichedKnown(Member(index)))
            /\ UNCHANGED handler
       ELSE /\ task' = [task EXCEPT ![index] = "fetching"]
            /\ handler' = [handler EXCEPT ![index] =
                              [NoHandler EXCEPT !.state = "inflight",
                                                !.company_name = Member(index).name,
                                                !.location = LocationOf(Member(index))]]
            /\ UNCHANGED <<enrichedCompanies, completed, found, notFound, errors,
                           progress, progressCalls>>
    /\ UNCHANGED <<companies, i, cache, now, ticks, writes, lastWrite>>
    /\ UNCHANGED <<delay, waits, cancelRequested, appCompanies, appPc>>

\* Lines 34, 44 and 63-70: the fetch rejects (the endpoint cannot be reached)
\* or what answers in its place is not JSON and response.json() rejects; the
\* catch block takes both.
FetchRejected(index) ==
    /\ pc = "awaiting"
    /\ task[index] = "fetching"
    /\ handler[index].state = "inflight"
    /\ handler' = [handler EXCEPT ![index] = NoHandler]
    /\ Finish(index, EnrichedError(Member(index)))
    /\ UNCHANGED <<companies, i, pc, cursor, cache, now, ticks, writes, lastWrite>>
    /\ UNCHANGED <<delay, waits, cancelRequested, appCompanies, appPc>>

\* Lines 44-62: the response has arrived and its JSON body is read; the
\* request is over.
ResponseRead(index) ==
    /\ pc = "awaiting"
    /\ task[index] = "fetching"
    /\ handler[index].state = "responded"
    /\ Finish(index, EnrichedFromData(Member(index), handler[index].body))
    /\ handler' = [handler EXCEPT ![index] = NoHandler]
    /\ UNCHANGED <<companies, i, pc, cursor, cache, now, ticks, writes, lastWrite>>
    /\ UNCHANGED <<delay, waits, cancelRequested, appCompanies, appPc>>

\* A join that resolves as soon as one member's callback has ended
\* (Promise.race in the place of Promise.all).
BatchJoinedOnFirst ==
    /\ pc = "awaiting"
    /\ \E index \in Slots : index < BatchLength /\ task[index] = "done"
    /\ pc' = "delay"
    /\ UNCHANGED <<companies, enrichedCompanies, i, cursor, task, completed, found,
                   notFound, errors, progress, progressCalls, handler, cache, now,
                   ticks, writes, lastWrite>>
    /\ waits' = Append(waits, InterBatchWait(delay))
    /\ UNCHANGED <<delay, cancelRequested, appCompanies, appPc>>

\* Line 20: Promise.all resolves once every member's callback has ended.
BatchJoined ==
    /\ pc = "awaiting"
    /\ \A index \in Slots : index < BatchLength => task[index] = "done"
    /\ pc' = "delay"
    /\ UNCHANGED <<companies, enrichedCompanies, i, cursor, task, completed, found,
                   notFound, errors, progress, progressCalls, handler, cache, now,
                   ticks, writes, lastWrite>>
    /\ waits' = Append(waits, InterBatchWait(delay))
    /\ UNCHANGED <<delay, cancelRequested, appCompanies, appPc>>

\* Lines 85 and 17: the timer fires; i += BATCH_SIZE.
DelayElapsed ==
    /\ pc = "delay"
    /\ i' = i + BATCH_SIZE
    /\ pc' = "loop"
    /\ UNCHANGED <<companies, enrichedCompanies, cursor, task, completed, found,
                   notFound, errors, progress, progressCalls, handler, cache, now,
                   ticks, writes, lastWrite>>
    /\ UNCHANGED <<delay, waits, cancelRequested, appCompanies, appPc>>

(***************************************************************************)
(* The endpoint: app.post('/api/enrich'), src/proxy-server.ts lines 94-216.*)
(***************************************************************************)
\* A test that refuses only a request with both fields missing.
MissingFieldBoth(h) == h.company_name = "" /\ h.location = ""

\* Line 97: !company_name || !location
MissingField(h) == h.company_name = "" \/ h.location = ""

\* What the history holds for a key when a request for it arrives.
WithinTtl(time) == now <= time + stdTTL

PriorValues(key) == {w.value : w \in {x \in writes : x.key = key /\ WithinTtl(x.time)}}

LatestValue(key) ==
    IF key \in DOMAIN lastWrite /\ WithinTtl(lastWrite[key].time)
    THEN {lastWrite[key].value}
    ELSE {}

\* Whose lookup wrote the entry a request for the key finds.
LatestWriter(key) ==
    IF key \in DOMAIN lastWrite /\ WithinTtl(lastWrite[key].time)
    THEN {[company_name |-> lastWrite[key].company_name,
           location |-> lastWrite[key].location,
           failed |-> lastWrite[key].failed]}
    ELSE {}

Arrived(h) ==
    [h EXCEPT !.prior = PriorValues(CacheKey(h.company_name, h.location)),
              !.latest = LatestValue(CacheKey(h.company_name, h.location)),
              !.writer = LatestWriter(CacheKey(h.company_name, h.location))]

\* Lines 95-121: the request arrives.  It is refused (400), answered from
\* the cache, or the first search query is sent.
RequestReceived(index) ==
    /\ pc = "awaiting"
    /\ handler[index].state = "inflight"
    /\ LET h == handler[index]
           key == CacheKey(h.company_name, h.location)
           got == CacheGet(cache, key, now)
       IN  IF MissingField(h)
           THEN /\ handler' = [handler EXCEPT ![index] =
                                 [h EXCEPT !.state = "responded", !.body = ErrorBody(400)]]
                /\ UNCHANGED cache
           ELSE /\ cache' = CacheAfterGet(cache, key, now)
                /\ handler' = [handler EXCEPT ![index] =
                      IF got.hit
                      THEN [Arrived(h) EXCEPT !.state = "responded", !.hit = TRUE,
                                              !.body = CacheHitBody(got.value)]
                      ELSE [Arrived(h) EXCEPT !.state = "searching", !.fetches = 1]]
    /\ UNCHANGED <<companies, enrichedCompanies, i, pc, cursor, task, completed,
                   found, notFound, errors, progress, progressCalls, now, ticks,
                   writes, lastWrite>>
    /\ UNCHANGED <<delay, waits, cancelRequested, appCompanies, appPc>>

\* Lines 110-124 and 212-215: an exception outside the per-query try (the
\* user-agent constructor, encodeURIComponent) reaches the outer catch.
HandlerFault(index) ==
    /\ pc = "awaiting"
    /\ handler[index].state = "inflight"
    /\ LET h == handler[index]
           key == CacheKey(h.company_name, h.location)
       IN  /\ ~MissingField(h)
           /\ ~CacheGet(cache, key, now).hit
           /\ cache' = CacheAfterGet(cache, key, now)
           /\ handler' = [handler EXCEPT ![index] =
                 [Arrived(h) EXCEPT !.state = "responded", !.body = ErrorBody(500)]]
    /\ UNCHANGED <<companies, enrichedCompanies, i, pc, cursor, task, completed,
                   found, notFound, errors, progress, progressCalls, now, ticks,
                   writes, lastWrite>>
    /\ UNCHANGED <<delay, waits, cancelRequested, appCompanies, appPc>>

\* Lines 47-53 and 63-64: the URL, lower-cased, contains a denylisted
\* substring.
Denylisted(url) == \E dir \in DIRECTORY_SITES : Includes(ToLowerCase(url), dir)

\* A page that yields URLs, every one of them on the denylist.
DirectoryOnly(urls) ==
    /\ Len(urls) > 0
    /\ \A j \in 1..Len(urls) : Denylisted(urls[j])

\* Lines 138-182 for one page: the extracted URLs, their scores, and the
\* candidates pushed.  ok = FALSE: the query's catch block (line 196) runs.
PageResultFrom(extracted, scored) ==
    [ok |-> extracted.ok,
     scored |-> {scored[j] : j \in 1..Len(scored)},
     candidates |-> Candidates(scored),
     top |-> PageTop(Candidates(scored)),
     directoryOnly |-> extracted.ok /\ DirectoryOnly(extracted.urls)]

PageResult(page, company_name) ==
    PageResultFrom(ExtractUrls(page), ScoreAll(ExtractUrls(page).urls, company_name))

\* The names the endpoint can be asked about.
LookupNames == {c.name : c \in CompanyPool \cup CallerPool}

\* PageResult for every page and name of the model, computed once, as
\* triples <<page, name, result>>.
PageResults ==
    {<<pg, name, PageResult(pg, name)>> : pg \in SearchPages, name \in LookupNames}

PageResultOf(page, company_name) ==
    (CHOOSE t \in PageResults : t[1] = page /\ t[2] = company_name)[3]

FailedFetch ==
    [ok |-> FALSE, scored |-> {}, candidates |-> <<>>, top |-> NoTop,
     directoryOnly |-> FALSE]

\* What a settled fetch hands to the rest of the loop body.
Fetched(outcome, company_name) ==
    IF outcome.ok THEN PageResultOf(outcome.page, company_name) ELSE FailedFetch

\* Lines 185-210, given the running best after this query: the loop goes on
\* to the next query (lines 123, 191-194), or the result is built, cached and
\* returned.
QuerySettled(index, h, fetchOk, page, best) ==
    IF /\ ~(page.ok /\ StopSearching(best))
       /\ h.fetches < Len(Queries(h.company_name, h.location))
    THEN /\ handler' = [handler EXCEPT ![index] =
                          [h EXCEPT !.best = best,
                                    !.onlyFailures = @ /\ ~fetchOk,
                                    !.onlyDirectories = @ /\ page.directoryOnly,
                                    !.qualified = @ \/ page.candidates # <<>>,
                                    !.top = SeenTop(@, page.top),
                                    !.dropped = @ \/ (fetchOk /\ ~page.ok),
                                    !.fetches = @ + 1]]
         /\ UNCHANGED <<cache, writes, lastWrite>>
    ELSE /\ handler' = [handler EXCEPT ![index] =
                          [h EXCEPT !.best = best,
                                    !.onlyFailures = @ /\ ~fetchOk,
                                    !.onlyDirectories = @ /\ page.directoryOnly,
                                    !.qualified = @ \/ page.candidates # <<>>,
                                    !.top = SeenTop(@, page.top),
                                    !.dropped = @ \/ (fetchOk /\ ~page.ok),
                                    !.state = "responded",
                                    !.body = ResultBody(LookupResult(best))]]
         /\ cache' = CacheSet(cache, CacheKey(h.company_name, h.location),
                              LookupResult(best), now)
         /\ writes' = writes \cup {[key |-> CacheKey(h.company_name, h.location),
                                    value |-> LookupResult(best), time |-> now]}
         /\ lastWrite' = [k \in DOMAIN lastWrite \cup {CacheKey(h.company_name, h.location)} |->
                             IF k = CacheKey(h.company_name, h.location)
                             THEN [value |-> LookupResult(best), time |-> now,
                                   company_name |-> h.company_name,
                                   location |-> h.location,
                                   failed |-> h.onlyFailures /\ ~fetchOk]
                             ELSE lastWrite[k]]

\* Lines 138-188: the page is extracted and scored and the running best
\* updated, or the query's catch block (line 196) runs.
PageSettled(index, h, fetchOk, page) ==
    QuerySettled(index, h, fetchOk, page,
                 IF page.ok THEN UpdateBest(h.best, page.candidates) ELSE h.best)

\* Lines 123-210: a search fetch settles.
QueryReturned(index, outcome) ==
    /\ pc = "awaiting"
    /\ handler[index].state = "searching"
    /\ PageSettled(index, handler[index], outcome.ok,
                   Fetched(outcome, handler[index].company_name))
    /\ UNCHANGED <<companies, enrichedCompanies, i, pc, cursor, task, completed,
                   found, notFound, errors, progress, progressCalls, now, ticks>>
    /\ UNCHANGED <<delay, waits, cancelRequested, appCompanies, appPc>>

(***************************************************************************)
(* Time.                                                                   *)
(***************************************************************************)
\* Time passes while the orchestrator waits for its timer (line 85): the
\* clock is read at this granularity, so the lookups of one batch fall on
\* one reading of it.
Tick ==
    /\ pc = "delay"
    /\ ticks < MaxTicks
    /\ now' = now + TickSeconds
    /\ ticks' = ticks + 1
    /\ UNCHANGED <<companies, enrichedCompanies, i, pc, cursor, task, completed,
                   found, notFound, errors, progress, progressCalls, handler, cache,
                   writes, lastWrite>>
    /\ UNCHANGED <<delay, waits, cancelRequested, appCompanies, appPc>>

\* NodeCache's periodic check deletes the expired entries.
CacheCheckData ==
    /\ pc \in {"awaiting", "delay"}
    /\ \E key \in DOMAIN cache : Expired(cache[key], now)
    /\ cache' = [key \in {k \in DOMAIN cache : ~Expired(cache[k], now)} |-> cache[key]]
    /\ UNCHANGED <<companies, enrichedCompanies, i, pc, cursor, task, completed,
                   found, notFound, errors, progress, progressCalls, handler, now,
                   ticks, writes, lastWrite>>
    /\ UNCHANGED <<delay, waits, cancelRequested, appCompanies, appPc>>

Next ==
    \/ LoopTest
    \/ \E index \in Slots : StartTask(index)
    \/ \E index \in Slots : FetchRejected(index)
    \/ \E index \in Slots : ResponseRead(index)
    \/ BatchJoined
    \/ DelayElapsed
    \/ \E index \in Slots : RequestReceived(index)
    \/ \E index \in Slots : HandlerFault(index)
    \/ \E index \in Slots, outcome \in SearchOutcomes : QueryReturned(index, outcome)
    \/ Tick
    \/ CacheCheckData

Spec == Init /\ [][Next]_vars

(***************************************************************************)
(* The run as the application makes it: the caller passes its own delay,   *)
(* the user may click Cancel while the run is in progress, a request may   *)
(* never be answered, and the list holds businesses whose cache keys       *)
(* coincide.                                                               *)
(***************************************************************************)
\* The third argument: 2000 from the application (App.tsx), 0 from the
\* test script (test-enrichment.ts line 25).
CallerDelays == {0, 2000}

CallerInit ==
    /\ companies \in CallerLists
    /\ delay \in CallerDelays
    /\ Started

\* Line 34: the fetch carries no timeout and no abort signal.  The
\* connection is open and nothing answers: the promise never settles.
RequestHung(index) ==
    /\ pc = "awaiting"
    /\ task[index] = "fetching"
    /\ handler[index].state = "inflight"
    /\ handler' = [handler EXCEPT ![index].state = "hung"]
    /\ UNCHANGED <<companies, enrichedCompanies, i, pc, cursor, task, completed, found,
                   notFound, errors, progress, progressCalls, cache, now, ticks,
                   writes, lastWrite, delay, waits, cancelRequested, appCompanies,
                   appPc>>

\* The Cancel button of the progress modal is clicked while the run is in
\* progress: onCancel closes the modal only if (!isEnriching), and nothing
\* is passed to the orchestrator.
CancelRequested ==
    /\ pc # "returned"
    /\ ~cancelRequested
    /\ cancelRequested' = TRUE
    /\ UNCHANGED <<companies, enrichedCompanies, i, pc, cursor, task, completed, found,
                   notFound, errors, progress, progressCalls, handler, cache, now,
                   ticks, writes, lastWrite, delay, waits, appCompanies, appPc>>

CallerNext ==
    \/ Next
    \/ \E index \in Slots : RequestHung(index)
    \/ CancelRequested

CallerSpec == CallerInit /\ [][CallerNext]_vars

(***************************************************************************)
(* The application (App.tsx, src/unnamed/part_002): "Enrich with Websites" *)
(* runs the orchestrator on the list and stores the result; "Retry Failed" *)
(* runs it again on the selected businesses and merges the results back.   *)
(* No filter is set, so filteredCompanies is companies (lines 95-110).     *)
(* The endpoint's process, its cache and the clock go on between the runs. *)
(***************************************************************************)
\* Lines 332-337 with the threshold of a confidence that counts as low.
RetryIfFoundBelow(company, threshold) ==
    \/ company.websiteStatus = "error"
    \/ company.websiteStatus = "not_found"
    \/ /\ company.websiteStatus = "found"
       /\ (IF company.websiteConfidence = NoConfidence
           THEN 0 ELSE company.websiteConfidence) < threshold

\* Lines 331-338: the filter of companiesToRetry;
\* (enriched.websiteConfidence || 0) < 30
NeedsRetry(company) == RetryIfFoundBelow(company, 30)

\* Line 331: filteredCompanies.filter(...)
companiesToRetry(list) == SelectSeq(list, NeedsRetry)

\* Line 376: enrichedResults.find(r => r.name === company.name), as the
\* set holding the first match, or the empty set for undefined.
FindByName(enrichedResults, name) ==
    {enrichedResults[k] : k \in {m \in 1..Len(enrichedResults) :
                                  /\ enrichedResults[m].name = name
                                  /\ \A n \in 1..(m - 1) : enrichedResults[n].name # name}}

\* Line 377: retryResult || company
ResultOr(retryResult, company) ==
    IF retryResult = {} THEN company ELSE CHOOSE r \in retryResult : TRUE

\* Lines 375-378: companies.map(...)
MergeRetry(list, enrichedResults) ==
    [k \in 1..Len(list) |-> ResultOr(FindByName(enrichedResults, list[k].name), list[k])]

\* The businesses the application enriches: one without a website, one of
\* the same name whose locality is the sentinel, one of the same name whose
\* website is known.
AppPool ==
    { Company("Java House", "N/A", "Nairobi", "Nairobi"),
      Company("Java House", "N/A", "N/A", "Mombasa"),
      KnownBusiness }

MaxAppCompanies == 2

AppLists == UNION {[1..n -> AppPool] : n \in 1..MaxAppCompanies}

\* Line 316: the application passes 2000.
AppDelay == 2000

AppInit ==
    /\ companies \in AppLists
    /\ delay = AppDelay
    /\ Started

\* Lines 311-326 of handleEnrichWithWebsites: the run has returned;
\* setCompanies(enrichedResults).
EnrichmentResolved ==
    /\ appPc = "enriching"
    /\ pc = "returned"
    /\ appCompanies' = enrichedCompanies
    /\ appPc' = "idle"
    /\ UNCHANGED <<companies, enrichedCompanies, i, pc, cursor, task, completed, found,
                   notFound, errors, progress, progressCalls, handler, cache, now,
                   ticks, writes, lastWrite, delay, waits, cancelRequested>>

\* Lines 329-372 of handleRetryEnrichment and lines 8-15 of the orchestrator:
\* with nothing to retry, or when the user declines, nothing happens;
\* otherwise the orchestrator is called with companiesToRetry.
RetryStarted(confirmRetry) ==
    /\ appPc = "idle"
    /\ IF companiesToRetry(appCompanies) = <<>> \/ ~confirmRetry
       THEN UNCHANGED vars
       ELSE /\ appPc' = "retrying"
            /\ companies' = companiesToRetry(appCompanies)
            /\ enrichedCompanies' = companiesToRetry(appCompanies)
            /\ i' = 0
            /\ pc' = "loop"
            /\ cursor' = 0
            /\ task' = [k \in Slots |-> "idle"]
            /\ completed' = 0 /\ found' = 0 /\ notFound' = 0 /\ errors' = 0
            /\ progress' = [total |-> Len(companiesToRetry(appCompanies)),
                            completed |-> 0, found |-> 0, notFound |-> 0,
                            errors |-> 0, currentBusiness |-> ""]
            /\ progressCalls' = 0
            /\ UNCHANGED <<handler, cache, now, ticks, writes, lastWrite, delay, waits,
                           cancelRequested, appCompanies>>

\* Lines 374-380: the retry run has returned; its results are merged into
\* companies by name.
RetryMerged ==
    /\ appPc = "retrying"
    /\ pc = "returned"
    /\ appCompanies' = MergeRetry(appCompanies, enrichedCompanies)
    /\ appPc' = "merged"
    /\ UNCHANGED <<companies, enrichedCompanies, i, pc, cursor, task, completed, found,
                   notFound, errors, progress, progressCalls, handler, cache, now,
                   ticks, writes, lastWrite, delay, waits, cancelRequested>>

AppNext ==
    \/ Next
    \/ EnrichmentResolved
    \/ \E confirmRetry \in BOOLEAN : RetryStarted(confirmRetry)
    \/ RetryMerged

AppSpec == AppInit /\ [][AppNext]_vars

(***************************************************************************)
(* Properties of the enrichment run.                                       *)
(***************************************************************************)
Statuses == {"found", "not_found", "error"}

\* The record is the enriched version of the business: the same business,
\* with the website a lookup found filled in.
EnrichedVersionOf(record, company) ==
    /\ record.name = company.name
    /\ record.locality = company.locality
    /\ record.county = company.county
    /\ \/ record.website = company.website
       \/ record.websiteStatus = "found" /\ record.website = record.websiteUrl

\* C1: the list the run returns has the length of the input list, and its
\* record at each index is the enriched version of the input business at
\* that index, with a status, whatever the outcomes of the lookups and the
\* order in which the lookups of a batch complete.
C1_SameLengthSameOrder ==
    /\ Len(enrichedCompanies) = Len(companies)
    /\ \A k \in 1..Len(companies) :
          /\ EnrichedVersionOf(enrichedCompanies[k], companies[k])
          /\ pc = "returned" => enrichedCompanies[k].websiteStatus \in Statuses

\* A run over four businesses has returned, with every outcome among them.
C1_Witness ==
    /\ pc = "returned"
    /\ Len(enrichedCompanies) = 4
    /\ {enrichedCompanies[k].websiteStatus : k \in 1..4} = Statuses

\* C2: in every progress snapshot passed to onProgress, completed is the sum
\* of found, notFound and errors, and is at most total.
C2_ProgressInvariant ==
    progressCalls > 0 =>
        /\ progress.completed = progress.found + progress.notFound + progress.errors
        /\ progress.completed <= progress.total
        /\ progress.total = Len(companies)

\* The last snapshot of a run in which every outcome was counted.
C2_Witness ==
    /\ progressCalls = 4
    /\ progress.completed = progress.total
    /\ progress.found > 0 /\ progress.notFound > 0 /\ progress.errors > 0

\* The website field holds a value that is not a placeholder.
KnownWebsite(company) == company.website \notin {"", "N/A"}

\* C3: a business whose website is set to a non-placeholder value gets status
\* "found" with websiteUrl equal to that website, is counted as found (found
\* is the number of records with status "found"), and no request is sent to
\* the endpoint for it.
C3_KnownWebsiteShortCircuit ==
    /\ found = Cardinality({k \in 1..Len(companies) :
                               enrichedCompanies[k].websiteStatus = "found"})
    /\ \A index \in Slots :
          (pc \in {"mapping", "awaiting", "delay"} /\ index < BatchLength
             /\ KnownWebsite(Member(index))) =>
                /\ handler[index].state = "none"
                /\ task[index] \in {"idle", "done"}
                /\ task[index] = "done" =>
                      /\ enrichedCompanies[i + index + 1].websiteStatus = "found"
                      /\ enrichedCompanies[i + index + 1].websiteUrl = Member(index).website
    /\ pc = "returned" =>
          \A k \in 1..Len(companies) :
             KnownWebsite(companies[k]) =>
                /\ enrichedCompanies[k].websiteStatus = "found"
                /\ enrichedCompanies[k].websiteUrl = companies[k].website

\* A business with a known website has been processed next to one whose
\* lookup is under way.
C3_Witness ==
    /\ pc = "awaiting"
    /\ \E index \in Slots :
          /\ index < BatchLength /\ KnownWebsite(Member(index))
          /\ task[index] = "done"
          /\ enrichedCompanies[i + index + 1].websiteStatus = "found"
    /\ \E index \in Slots : handler[index].state = "searching"

\* C4 as stated: a lookup answered within the TTL of earlier writes for its
\* key fetches nothing and returns the result of every one of those writes.
C4_IdenticalToEveryWrite ==
    \A index \in Slots :
       handler[index].prior # {} =>
          /\ handler[index].hit /\ handler[index].fetches = 0
          /\ \A value \in handler[index].prior :
                handler[index].body = ResultBody(value)

\* C4, amended: a lookup that arrives within the TTL of a write for its key
\* is answered from the cache with zero search fetches, and returns the
\* result most recently written for the key; a hit never fetches.
C4_CacheHitReturnsLatestWrite ==
    \A index \in Slots :
       /\ handler[index].latest # {} =>
             /\ handler[index].state = "responded"
             /\ handler[index].hit
             /\ \A value \in handler[index].latest :
                   handler[index].body = ResultBody(value)
       /\ handler[index].hit =>
             /\ handler[index].fetches = 0
             /\ handler[index].latest # {}

\* A hit for a key that concurrent lookups wrote twice, with two results.
C4_Witness ==
    \E index \in Slots :
       /\ handler[index].hit
       /\ Cardinality(handler[index].prior) >= 2

\* The step in which the orchestrator reads the answer to the lookup of
\* batch member index and writes the member's record.
ReadsResponse(index) ==
    /\ task[index] = "fetching"
    /\ handler[index].state = "responded"
    /\ task'[index] = "done"

\* The record written for batch member index by the step.
Written(index) == enrichedCompanies'[i + index + 1]

\* The lookup searched (no cache hit, no refusal) and has answered.
Searched(h) == h.state = "responded" /\ ~h.hit /\ h.fetches > 0

\* C5 as stated: when the fetches of all three queries of a lookup throw,
\* the business's status is "error".
C5_AllQueriesFailIsError ==
    [][\A index \in Slots :
          (/\ ReadsResponse(index)
           /\ Searched(handler[index])
           /\ handler[index].fetches = 3
           /\ handler[index].onlyFailures)
          => /\ Written(index).websiteStatus = "error"
             /\ errors' = errors + 1]_vars

\* C6 as stated: an answer with a non-2xx status gives the business status
\* "error" and increments errors; an answer with a URL gives "found" and one
\* without a URL gives "not_found".
C6_FailureAnswerIsError ==
    [][\A index \in Slots :
          ReadsResponse(index) =>
             IF handler[index].body.status \notin 200..299
             THEN /\ Written(index).websiteStatus = "error"
                  /\ errors' = errors + 1
             ELSE IF handler[index].body.websiteUrl \notin {NullUrl, NoUrl}
             THEN /\ Written(index).websiteStatus = "found"
                  /\ found' = found + 1
             ELSE /\ Written(index).websiteStatus = "not_found"
                  /\ notFound' = notFound + 1]_vars

\* C7 as stated: the url a lookup returns is the winning candidate's and is
\* null only if no extracted candidate qualified; the confidence is the
\* winning score clamped into 0..100, and 0 when the url is null.
C7_NullOnlyIfNoneQualified ==
    \A index \in Slots :
       Searched(handler[index]) =>
          /\ handler[index].body.websiteUrl = NullUrl => ~handler[index].qualified
          /\ handler[index].body.websiteUrl # NullUrl =>
                /\ handler[index].best.some
                /\ handler[index].body.websiteUrl = handler[index].best.url
                /\ handler[index].body.confidence
                      = Min(100, Max(0, handler[index].best.score))
          /\ handler[index].body.websiteUrl = NullUrl =>
                handler[index].body.confidence = 0

\* Every URL the pages of the model yield, with its score for every name.
ScoredUrls == UNION {t[3].scored : t \in PageResults}

ScoredDenylisted == {scored \in ScoredUrls : Denylisted(scored.url)}

AcceptableUrls == {scored.url : scored \in ScoredUrls \ ScoredDenylisted}

\* C8: scoreUrl gives -100 to every URL whose lower-cased form contains a
\* denylisted substring, whatever other signals the URL carries, and no
\* lookup returns a denylisted URL as its websiteUrl.
C8_DenylistedNeverReturned ==
    /\ \A scored \in ScoredDenylisted : scored.score = -100
    /\ \A index \in Slots :
          (/\ handler[index].state = "responded"
           /\ handler[index].body.websiteUrl \notin {NullUrl, NoUrl})
          => handler[index].body.websiteUrl \in AcceptableUrls

\* A lookup has returned a URL from a page that also lists a denylisted URL
\* carrying the company's name.
C8_Witness ==
    \E index \in Slots :
       /\ Searched(handler[index])
       /\ \E t \in PageResults :
             /\ t[2] = handler[index].company_name
             /\ \E scored \in t[3].scored : scored.url = handler[index].body.websiteUrl
             /\ \E scored \in t[3].scored :
                   /\ Denylisted(scored.url)
                   /\ Includes(ToLowerCase(scored.url),
                               normalizeCompanyName(handler[index].company_name))

\* C9: no further query is fetched once the running best score is 40 or
\* more (so a first query that yields such a candidate is the only one), and
\* the business of a lookup that ended on such a candidate gets status
\* "found" with a confidence in 40..100.
C9_StopsAtHighConfidence ==
    [][\A index \in Slots :
          /\ handler'[index].fetches > handler[index].fetches
                => ~(handler'[index].best.some /\ handler'[index].best.score >= 40)
          /\ (/\ ReadsResponse(index)
              /\ Searched(handler[index])
              /\ handler[index].best.some /\ handler[index].best.score >= 40)
             => /\ Written(index).websiteStatus = "found"
                /\ Written(index).websiteConfidence \in 40..100
                /\ Written(index).websiteUrl = handler[index].best.url]_vars

\* A lookup whose first query yielded a candidate scoring 40 or more has
\* answered after that one fetch.
C9_Witness ==
    \E index \in Slots :
       /\ Searched(handler[index])
       /\ handler[index].fetches = 1
       /\ handler[index].best.some /\ handler[index].best.score >= 40
       /\ handler[index].body.confidence \in 40..100

\* C10: when all three queries of a lookup return only denylisted URLs, the
\* lookup returns url null with confidence 0 and the business's status is
\* "not_found".
C10_OnlyDirectoriesIsNotFound ==
    [][\A index \in Slots :
          (/\ ReadsResponse(index)
           /\ Searched(handler[index])
           /\ handler[index].fetches = 3
           /\ handler[index].onlyDirectories)
          => /\ handler[index].body = ResultBody([websiteUrl |-> NullUrl, confidence |-> 0])
             /\ Written(index).websiteStatus = "not_found"
             /\ Written(index).websiteConfidence = 0
             /\ notFound' = notFound + 1]_vars

\* A lookup has answered after three pages of denylisted URLs only.
C10_Witness ==
    \E index \in Slots :
       /\ Searched(handler[index])
       /\ handler[index].fetches = 3
       /\ handler[index].onlyDirectories
       /\ handler[index].body.websiteUrl = NullUrl

\* The step in which the lookup of batch member index fails: its fetch or
\* the parsing of its answer rejects.
Rejects(index) ==
    /\ task[index] = "fetching"
    /\ handler[index].state = "inflight"
    /\ task'[index] = "done"

\* C11: the failure of one business's lookup is recorded as that business's
\* "error" and touches nothing else: the run goes on where it was, the other
\* lookups of the batch and their records are left alone, and when the run
\* returns it returns a record with a status for every business.
C11_FailureIsContained ==
    [][/\ \A index \in Slots :
             Rejects(index) =>
                /\ pc' = pc /\ i' = i
                /\ Written(index).websiteStatus = "error"
                /\ errors' = errors + 1 /\ completed' = completed + 1
                /\ \A other \in Slots \ {index} :
                      /\ task'[other] = task[other]
                      /\ handler'[other] = handler[other]
                      /\ other < BatchLength =>
                            enrichedCompanies'[i + other + 1]
                               = enrichedCompanies[i + other + 1]
       /\ (pc # "returned" /\ pc' = "returned") =>
             /\ completed' = Len(companies)
             /\ \A k \in 1..Len(companies) :
                   enrichedCompanies'[k].websiteStatus \in Statuses]_vars

\* A run has returned in which the first business's lookup failed, and
\* businesses of the same batch and of the next batch were looked up.
C11_Witness ==
    /\ pc = "returned"
    /\ Len(companies) = 4
    /\ enrichedCompanies[1].websiteStatus = "error"
    /\ enrichedCompanies[2].websiteStatus = "not_found"
    /\ enrichedCompanies[4].websiteStatus = "found"
    /\ ~KnownWebsite(companies[4])

\* The request carries no company_name or no location.
Incomplete(h) == h.company_name = "" \/ h.location = ""

InFlight ==
    {i + index + 1 : index \in {k \in Slots : task[k] = "fetching"}}

\* C13: batches hold at most 3 businesses and run one after another: the
\* lookups in flight all belong to the current batch, so there are at most
\* 3 of them; every business of an earlier batch has its status before a
\* lookup of the current batch is started; and no lookup is in flight once
\* the batch has been joined.
C13_BatchesRunInSequence ==
    /\ Cardinality(InFlight) <= 3
    /\ InFlight \subseteq (i + 1)..(i + 3)
    /\ InFlight \subseteq 1..Len(companies)
    /\ InFlight # {} =>
          /\ pc \in {"mapping", "awaiting"}
          /\ \A k \in 1..i : enrichedCompanies[k].websiteStatus \in Statuses
    /\ pc \in {"delay", "loop", "returned"} =>
          \A index \in Slots :
             task[index] # "fetching" /\ handler[index].state = "none"
    /\ pc \in {"mapping", "awaiting"} =>
          /\ BatchLength \in 1..3
          /\ \A k \in 1..i : enrichedCompanies[k].websiteStatus \in Statuses

\* Three lookups of the first batch are in flight at once, and a fourth
\* business waits for the second batch.
C13_Witness ==
    /\ Cardinality(InFlight) = 3
    /\ i = 0
    /\ Len(companies) = 4
    /\ enrichedCompanies[4].websiteStatus = NoStatus

\* C14: the url a lookup returns, when it is not null, is a candidate that
\* scored the most among the qualifying candidates of the pages processed,
\* and the first one to do so: a later candidate replaces the running best
\* only with a strictly greater score, so a tie stays with the earlier query
\* (and, within a page, with the earlier link).
C14_BestIsFirstMaximum ==
    [][\A index \in Slots :
          /\ (/\ handler'[index].state = "responded"
              /\ ~handler'[index].hit /\ handler'[index].fetches > 0
              /\ handler'[index].body.websiteUrl # NullUrl)
             => /\ handler'[index].top.some
                /\ handler'[index].best.score = handler'[index].top.score
                /\ handler'[index].body.websiteUrl = handler'[index].top.url
          /\ (/\ handler[index].state = "searching"
              /\ handler[index].best.some
              /\ handler'[index].state # "none"
              /\ handler'[index].best # handler[index].best)
             => handler'[index].best.score > handler[index].best.score]_vars

\* A lookup has returned the first of two URLs that tied, found by
\* different queries.
C14_Witness ==
    \E index \in Slots :
       /\ Searched(handler[index])
       /\ handler[index].body.websiteUrl = handler[index].top.url
       /\ Cardinality(handler[index].top.urls) = 2

\* The three queries in the order (a) restricted to .ke sites, (b) without
\* the social sites, (c) "official website".
InFixedOrder(queries, company_name) ==
    /\ Len(queries) = 3
    /\ EndsWith(queries[1], " site:.ke")
    /\ EndsWith(queries[2], " -site:facebook.com -site:yelp.com -site:tripadvisor.com")
    /\ StartsWith(queries[3], company_name \o " official website ")

\* What a lookup returns when one page alone decides it, for every page and
\* name of the model.
SinglePageAnswers ==
    {<<t[2], ResultBody(LookupResult(UpdateBest(NoCandidate, t[3].candidates)))>> :
        t \in PageResults}

\* C15: a lookup issues at most three search fetches, one query after the
\* other in the order (a), (b), (c); a fetch that fails makes the lookup go
\* on to the next query, and after the last query the lookup answers 200
\* with a {websiteUrl, confidence} built from the pages that did arrive.
C15_QueriesInOrderFailuresSkipped ==
    [][\A index \in Slots :
          /\ handler'[index].fetches <= 3
          /\ handler'[index].state = "searching" =>
                /\ InFixedOrder(Queries(handler'[index].company_name,
                                        handler'[index].location),
                                handler'[index].company_name)
                /\ handler'[index].fetches
                      = IF handler[index].state = "searching"
                        THEN IF handler'[index] = handler[index]
                             THEN handler[index].fetches
                             ELSE handler[index].fetches + 1
                        ELSE 1
          /\ (/\ handler[index].state = "searching"
              /\ handler'[index] # handler[index]
              /\ handler'[index].state # "none"
              /\ handler[index].onlyFailures /\ handler'[index].onlyFailures)
             => IF handler[index].fetches < 3
                THEN /\ handler'[index].state = "searching"
                     /\ handler'[index].fetches = handler[index].fetches + 1
                ELSE /\ handler'[index].state = "responded"
                     /\ handler'[index].body
                           = [status |-> 200, websiteUrl |-> NullUrl, confidence |-> 0]
          /\ (handler[index].state = "searching"
                /\ handler'[index].state = "responded")
             => /\ handler'[index].body.status = 200
                /\ handler'[index].body.confidence \in 0..100
                /\ (handler[index].onlyFailures /\ ~handler'[index].onlyFailures)
                      => <<handler[index].company_name, handler'[index].body>>
                            \in SinglePageAnswers]_vars

\* The fetches of the first two queries have failed and the third query is
\* being fetched.
C15_Witness ==
    \E index \in Slots :
       /\ handler[index].state = "searching"
       /\ handler[index].fetches = 3
       /\ handler[index].onlyFailures

\* C16 as stated: a malformed redirect wrapper costs at most its own
\* candidate, and the query is not treated as failed: no lookup discards,
\* with the well-formed links on it, a page that it fetched.
C16_MalformedLinkSkipsOnlyItself ==
    \A index \in Slots : ~handler[index].dropped

\* C17: the pause between two batches lasts as long as the caller asked:
\* every inter-batch timer is set to the delay parameter.
C17_PauseIsTheCallersDelay == \A k \in 1..Len(waits) : waits[k] = delay

\* A lookup request in flight can still be answered, refused or rejected.
CanSettle(index) ==
    ENABLED (\/ RequestReceived(index)
             \/ HandlerFault(index)
             \/ FetchRejected(index)
             \/ ResponseRead(index)
             \/ \E outcome \in SearchOutcomes : QueryReturned(index, outcome))

\* C18: no network call can stall the run: every lookup the orchestrator
\* awaits can still settle.
C18_NoLookupStalls ==
    \A index \in Slots : (pc = "awaiting" /\ task[index] = "fetching") => CanSettle(index)

\* C19: once the user has asked to cancel, no further batch is started.
C19_CancelStopsFurtherBatches ==
    [][~(cancelRequested /\ pc = "loop" /\ pc' = "mapping")]_vars

\* C20: a lookup answered from the cache gets a result that was found for
\* its own business and location.
C20_HitIsForTheSameBusiness ==
    \A index \in Slots :
       handler[index].hit =>
          \A w \in handler[index].writer :
             /\ w.company_name = handler[index].company_name
             /\ w.location = handler[index].location

\* The key of the lookup in a handler slot.
KeyOf(h) == CacheKey(h.company_name, h.location)

\* The lookup ends its query loop in this step.
EndsLoop(index) ==
    handler[index].state = "searching" /\ handler'[index].state = "responded"

\* The request arrives complete in this step, after the latest write for
\* its key has been in the cache for more than an hour.
ArrivesAfterExpiry(index) ==
    /\ handler[index].state = "inflight"
    /\ handler'[index].state \in {"searching", "responded"}
    /\ ~Incomplete(handler[index])
    /\ KeyOf(handler[index]) \in DOMAIN lastWrite
    /\ now > lastWrite[KeyOf(handler[index])].time + 3600

\* C21: a lookup that runs its query loop to the end answers 200 with the
\* {websiteUrl, confidence} it has just written to the cache, and the entry
\* expires 3600 seconds after the write; a lookup that arrives after that
\* hour finds no entry, is not answered from the cache and sends a search
\* query (or fails with 500 before it does).
C21_WrittenForOneHour ==
    [][\A index \in Slots :
          /\ EndsLoop(index) =>
                /\ handler'[index].body.status = 200
                /\ KeyOf(handler[index]) \in DOMAIN cache'
                /\ cache'[KeyOf(handler[index])] =
                      [value |-> [websiteUrl |-> handler'[index].body.websiteUrl,
                                  confidence |-> handler'[index].body.confidence],
                       t |-> now + 3600]
          /\ ArrivesAfterExpiry(index) =>
                /\ ~handler'[index].hit
                /\ KeyOf(handler[index]) \notin DOMAIN cache'
                /\ \/ handler'[index].state = "searching" /\ handler'[index].fetches = 1
                   \/ handler'[index].body = ErrorBody(500)]_vars

\* A lookup is searching again more than an hour after a result for its
\* key was written.
C21_Witness ==
    \E index \in Slots :
       /\ handler[index].state = "searching"
       /\ KeyOf(handler[index]) \in DOMAIN lastWrite
       /\ now > lastWrite[KeyOf(handler[index])].time + 3600

\* The results written for a key that are less than an hour old.
LiveWrites(key) == {w \in writes : w.key = key /\ now <= w.time + 3600}

\* The request arrives complete in this step, after a lookup has written a
\* result for its key.
ArrivesAfterWrite(index) ==
    /\ handler[index].state = "inflight"
    /\ handler'[index].state \in {"searching", "responded"}
    /\ ~Incomplete(handler[index])
    /\ LiveWrites(KeyOf(handler[index])) # {}

\* C22: once a lookup has written its result, a lookup of the same
\* (company_name, location) that starts afterwards is answered from the
\* cache without a search fetch; and when the lookups of a batch have all
\* finished, the cache holds for every key written one entry, whose value
\* is the result of one of the lookups that wrote it.
C22_NoDuplicateSearchAfterWrite ==
    [][/\ \A index \in Slots :
             ArrivesAfterWrite(index) =>
                /\ handler'[index].state = "responded"
                /\ handler'[index].hit
                /\ handler'[index].fetches = 0
                /\ writes' = writes
       /\ (pc = "awaiting" /\ pc' = "delay") =>
             \A w \in writes' :
                now <= w.time + 3600 =>
                   /\ w.key \in DOMAIN cache'
                   /\ cache'[w.key].value \in {x.value : x \in LiveWrites(w.key)}]_vars

\* Two lookups of the first batch have the same name and location; one has
\* written its result and the other, arriving later, got it from the cache.
C22_Witness ==
    /\ i = 0
    /\ pc = "awaiting"
    /\ \E a, b \in Slots :
          /\ a # b /\ a < BatchLength /\ b < BatchLength
          /\ Member(a).name = Member(b).name
          /\ LocationOf(Member(a)) = LocationOf(Member(b))
          /\ task[a] = "done"
          /\ handler[b].hit
          /\ handler[b].fetches = 0
          /\ LiveWrites(KeyOf(handler[b])) # {}

\* The retry run starts in this step.
StartsRetry == appPc = "idle" /\ appPc' = "retrying"

\* A confidence below 30 is recorded for the business.
LowConfidenceRecorded(company) ==
    /\ company.websiteConfidence # NoConfidence
    /\ company.websiteConfidence < 30

\* C23: the retry run is given exactly the businesses whose status is
\* "error" or "not_found", or "found" with a recorded confidence below 30,
\* in their order; a business that is "found" with no low confidence
\* recorded, or that has no status, is not among them.
C23_RetrySelectsFailedOrLowConfidence ==
    [][StartsRetry =>
          \A k \in 1..Len(appCompanies) :
             (\E n \in 1..Len(companies') : companies'[n] = appCompanies[k])
                <=> \/ appCompanies[k].websiteStatus \in {"error", "not_found"}
                    \/ /\ appCompanies[k].websiteStatus = "found"
                       /\ LowConfidenceRecorded(appCompanies[k])]_vars

\* The retry results are merged in this step.
MergesRetry == appPc = "retrying" /\ appPc' = "merged"

\* The place in the retry list of the selected business at place k.
RetryRank(k) == Cardinality({m \in 1..k : NeedsRetry(appCompanies[m])})

\* C24: after the merge the list has the same length and order, a business
\* that was not selected for retry is unchanged, and a retried business is
\* replaced by its own retry result, also when businesses share a name.
C24_MergeReplacesEachByItsOwnResult ==
    [][MergesRetry =>
          /\ Len(appCompanies') = Len(appCompanies)
          /\ \A k \in 1..Len(appCompanies) :
                appCompanies'[k] = IF NeedsRetry(appCompanies[k])
                                   THEN enrichedCompanies[RetryRank(k)]
                                   ELSE appCompanies[k]]_vars

\* A string field that is absent: empty, or the sentinel "N/A".
Absent(str) == str \in {"", "N/A", NullUrl, NoUrl}

\* C25: the location sent with a lookup is the locality when it is present,
\* otherwise the county when it is present, otherwise "Kenya", where absent
\* means empty or "N/A"; so the location sent is never empty or "N/A".
C25_LocationIsBestAvailable ==
    \A index \in Slots :
       (task[index] = "fetching" /\ handler[index].state = "inflight") =>
          /\ handler[index].location =
                IF ~Absent(Member(index).locality) THEN Member(index).locality
                ELSE IF ~Absent(Member(index).county) THEN Member(index).county
                ELSE "Kenya"
          /\ ~Absent(handler[index].location)

\* C26: the fields a business came with are read-only: every enriched record
\* has the name, locality, county and website of the input record at its
\* place; only websiteUrl, websiteStatus and websiteConfidence are added.
C26_OriginalFieldsAreKept ==
    /\ Len(enrichedCompanies) = Len(companies)
    /\ \A k \in 1..Len(companies) :
          /\ enrichedCompanies[k].name = companies[k].name
          /\ enrichedCompanies[k].locality = companies[k].locality
          /\ enrichedCompanies[k].county = companies[k].county
          /\ enrichedCompanies[k].website = companies[k].website

\* Every URL the pages of the model yield that is not denylisted, with a
\* name it was scored for and its score.
ScoredClean ==
    UNION {{[name |-> t[2], url |-> scored.url, score |-> scored.score] :
               scored \in t[3].scored \ ScoredDenylisted} : t \in PageResults}

\* The sum of the four signals for a URL and a business name.
SignalSum(url, name) ==
      (IF Includes(ToLowerCase(url), ".ke") THEN 20 ELSE 0)
    + (IF /\ normalizeCompanyName(name) # ""
          /\ Includes(ToLowerCase(url), normalizeCompanyName(name))
       THEN 30 ELSE 0)
    + (IF \E tld \in {".com", ".org", ".net", ".co.ke", ".ke"} :
             EndsWith(ToLowerCase(url), tld)
       THEN 10 ELSE 0)
    - (IF \E builder \in {"wordpress", "wix", "squarespace", "blogspot", "weebly"} :
             Includes(ToLowerCase(url), "." \o builder \o ".")
       THEN 5 ELSE 0)

\* The scores that are not the sum of the signals, outside [-5, 60], or
\* that hold the name bonus for a name without a letter or digit.
ScoreDeviations ==
    {t \in ScoredClean :
        \/ t.score # SignalSum(t.url, t.name)
        \/ t.score < -5 \/ t.score > 60
        \/ normalizeCompanyName(t.name) = "" /\ t.score > 30}

\* C27: for a URL with no denylisted substring scoreUrl returns +20 for
\* ".ke", +30 for the non-empty normalized name, +10 for a business TLD at
\* the end and -5 for a website-builder subdomain, summed; the score lies in
\* [-5, 60]; a name without [a-z0-9] never earns the +30.  The best
\* candidate a lookup holds carries that score.
C27_ScoreIsTheSumOfItsSignals ==
    /\ ScoreDeviations = {}
    /\ \A index \in Slots :
          handler[index].best.some =>
             [name |-> handler[index].company_name, url |-> handler[index].best.url,
              score |-> handler[index].best.score] \in ScoredClean

\* A lookup for a name without a letter or digit holds a .co.ke URL as its
\* best candidate, scored 30: ".ke" and the TLD, without the name bonus.
C27_Witness ==
    \E index \in Slots :
       /\ handler[index].company_name # ""
       /\ normalizeCompanyName(handler[index].company_name) = ""
       /\ handler[index].best.some
       /\ handler[index].best.score = 30
       /\ EndsWith(ToLowerCase(handler[index].best.url), ".co.ke")

\* The businesses of the batch whose callback ends in this step.
Finishing == {index \in Slots : task[index] # "done" /\ task'[index] = "done"}

\* C28: onProgress is called once for each business, when that business has
\* finished, with its name; completed counts the calls (1, 2, ..., n), found,
\* notFound and errors never decrease, and when the run returns n calls
\* have been made, the last with completed = total.
C28_OneSnapshotPerBusiness ==
    [][/\ progressCalls' = progressCalls + Cardinality(Finishing)
       /\ Cardinality(Finishing) <= 1
       /\ \A index \in Finishing :
             /\ progress'.completed = progress.completed + 1
             /\ progress'.completed = progressCalls'
             /\ progress'.currentBusiness = Member(index).name
             /\ progress'.found >= progress.found
             /\ progress'.notFound >= progress.notFound
             /\ progress'.errors >= progress.errors
       /\ Finishing = {} => progress' = progress
       /\ pc' = "returned" =>
             /\ progressCalls' = Len(companies)
             /\ Len(companies) > 0 => progress'.completed = progress'.total]_vars

\* A run over four businesses has returned after four snapshots.
C28_Witness ==
    /\ pc = "returned"
    /\ Len(companies) = 4
    /\ progressCalls = 4
    /\ progress.completed = 4

\* The request arrives complete in this step, less than an hour after a
\* lookup in which every query failed wrote the latest result for its key.
ArrivesAfterFailedLookup(index) ==
    /\ handler[index].state = "inflight"
    /\ handler'[index].state \in {"searching", "responded"}
    /\ ~Incomplete(handler[index])
    /\ KeyOf(handler[index]) \in DOMAIN lastWrite
    /\ lastWrite[KeyOf(handler[index])].failed
    /\ now <= lastWrite[KeyOf(handler[index])].time + 3600

\* The answer read was taken from an entry that such a lookup wrote.
HitOnFailedLookup(h) == h.hit /\ \E w \in h.writer : w.failed

ResolvedBefore(company) ==
    company.websiteStatus = "found" /\ company.websiteConfidence # NoConfidence

\* C30: a record that a run returns as "found" from the endpoint's answer
\* has its website set to the resolved URL; a later run that is given such a
\* record sends no request for it and returns it as it was: the same
\* websiteUrl, status "found" and the recorded websiteConfidence.
C30_RerunKeepsResolved ==
    [][\A index \in Slots :
          /\ (ReadsResponse(index) /\ Written(index).websiteStatus = "found") =>
                /\ Written(index).website = Written(index).websiteUrl
                /\ ResolvedBefore(Written(index))
          /\ (/\ pc \in {"mapping", "awaiting"}
              /\ index < BatchLength
              /\ ResolvedBefore(Member(index))) =>
                /\ handler[index].state = "none"
                /\ task[index] \in {"idle", "done"}
                /\ index \in Finishing => Written(index) = Member(index)]_vars

\* The retry run has returned a business that the first run had found with
\* confidence 25, without a request and unchanged.
C30_Witness ==
    /\ appPc = "retrying"
    /\ pc = "awaiting"
    /\ \E index \in Slots :
          /\ index < BatchLength
          /\ ResolvedBefore(Member(index))
          /\ Member(index).websiteConfidence = 25
          /\ task[index] = "done"
          /\ handler[index].state = "none"
          /\ enrichedCompanies[i + index + 1] = Member(index)
====
